---- MODULE Spec2Model ----
(***************************************************************************)
(* Model of @bsv/teranode-listener (bsv-blockchain/ts-p2p).                *)
(*                                                                         *)
(* P2PNode (src/README.md 483-837) is modelled from its code: create/init, *)
(* the static-peer reconciliation loop, the gossipsub:message listener and *)
(* stop().  The libp2p node is the external overlay capability: it is      *)
(* modelled by its observable state (status, connected peers, pubsub       *)
(* subscriptions) and by the calls the session issues to it.               *)
(*                                                                         *)
(* TeranodeListener (per-topic callbacks) is declared in the API reference *)
(* (src/README.md 136-193) and called by src/demo.ts, but its code is not  *)
(* among the sources; its registry and dispatch are modelled from the      *)
(* specification, section 4.3.                                             *)
(***************************************************************************)
EXTENDS Integers, Sequences, FiniteSets, TLC

(* ------------------------------------------------------------------ *)
(* Bounds of the model                                                 *)
(* ------------------------------------------------------------------ *)
MaxStatic == 2      \* longest configured static peer list
MaxTicks == 2       \* reconciliation ticks (setInterval firings) explored
MaxStops == 2       \* calls of stop() explored
MaxMsgs == 2        \* gossipsub:message events explored
MaxKey == 2         \* longest configured sharedKey, in characters
MaxOps == 2         \* calls of the query and connect operations explored
MaxHeight == 1       \* tallest tree the factories are asked for

(* ------------------------------------------------------------------ *)
(* The network around the node                                         *)
(* ------------------------------------------------------------------ *)
\* A multiaddr string is the sequence of its "/"-separated components.
AddrA == <<"dns4", "a", "tcp", "9905", "p2p", "PA">>
AddrB == <<"dns4", "b", "tcp", "9905", "p2p", "PB">>
\* A dialable multiaddr that carries no /p2p/<peer-id> component.
AddrC == <<"ip4", "c", "tcp", "4003">>
Addrs == {AddrA, AddrB, AddrC}

Hosts == {"a", "b", "c"}
PeerIds == {"PA", "PB", "PC"}
Host(addr) == addr[2]
\* The peer that answers at a host.
PeerAt(h) == CASE h = "a" -> "PA" [] h = "b" -> "PB" [] OTHER -> "PC"

\* All sequences over S of length at most n.
SeqsUpTo(S, n) == UNION {[1..k -> S] : k \in 0..n}

(* ------------------------------------------------------------------ *)
(* P2PNode state                                                       *)
(* ------------------------------------------------------------------ *)
VARIABLES
    options,               \* the options object given to P2PNode.create
    pc,                    \* where create()/init() stands
    node,                  \* this.node: "null" or "libp2p"
    status,                \* the libp2p node: "none", "created", "started", "stopped"
    subscriptions,         \* node.services.pubsub: the subscribed topics
    subIdx,                \* init's topic loop: topics subscribed so far
    listening,             \* the gossipsub:message listener is installed
    staticPeers,           \* this.staticPeers
    reconnectionInterval,  \* this.reconnectionInterval is a live timer
    peers,                 \* node.getPeers(): the live connected-peer set
    reachable,             \* hosts that currently answer a dial
    dials,                 \* node.dial calls issued and not yet settled
    ticks,                 \* ticks fired so far
    stops,                 \* stop() calls so far
    nodeStopCalls,         \* node.stop() calls issued to the libp2p node
    reachableAtTick,       \* the hosts that were reachable when the last tick fired
    delivered,             \* gossipsub:message events delivered to the listener
    invoked,               \* payloads passed to this.messageHandler, in order
    escaped,               \* handler errors that left the listener
    alive,                 \* the hosting process is alive
    libp2pOptions,         \* what init hands to createLibp2p
    opLog,                 \* calls of the session's operations, with outcomes
    connects               \* the connectToPeerById calls, with their progress

(* TeranodeListener state (modelled from the specification) *)
VARIABLES
    topicCallbacks,        \* the registry: topic -> callback, or NoCallback
    channels,              \* the overlay channels the listener has subscribed
    running,               \* the listener session is running
    hist,                  \* per topic, what the caller last asked for and found
    events,                \* message events the overlay delivered, in order
    calls,                 \* callback invocations, in order
    dispatchErrors,        \* errors that left the dispatcher
    overlayCalls           \* per topic, what its registration did, in order

nodeVars == <<options, pc, node, status, subscriptions, subIdx, listening,
              staticPeers, reconnectionInterval, peers, reachable, dials,
              ticks, stops, nodeStopCalls, reachableAtTick>>
msgVars == <<delivered, invoked, escaped, alive>>
opVars == <<libp2pOptions, opLog, connects>>
listenerVars == <<topicCallbacks, channels, running, hist, events, calls,
                  dispatchErrors, overlayCalls>>

\* The Subtree
VARIABLES
    subtree,               \* the Subtree object the caller works on
    restored,              \* the last round trip: the original and its copy
    lastCall               \* the last call on the subtree and how it ended

subtreeVars == <<subtree, restored, lastCall>>

\* P2PNode.topics
topics == <<"bitcoin/mainnet-bestblock", "bitcoin/mainnet-block",
            "bitcoin/mainnet-subtree", "bitcoin/mainnet-mining_on",
            "bitcoin/mainnet-handshake", "bitcoin/mainnet-rejected_tx">>

\* staticPeer.match(/\/p2p\/([^/]+)$/): the peer id when the address ends in
\* /p2p/<id>, "" when the pattern does not match.
PeerIdMatchLastComponent(staticPeer) ==
    IF Len(staticPeer) >= 1 THEN staticPeer[Len(staticPeer)] ELSE ""
PeerIdMatch(staticPeer) ==
    IF Len(staticPeer) >= 2 /\ staticPeer[Len(staticPeer) - 1] = "p2p"
                            /\ staticPeer[Len(staticPeer)] # ""
    THEN staticPeer[Len(staticPeer)]
    ELSE ""

(* ------------------------------------------------------------------ *)
(* Configuration: private network and DHT                              *)
(* ------------------------------------------------------------------ *)
\* A string is the sequence of its characters.  sharedKey is a hexadecimal
\* string; an absent sharedKey and the empty string are both falsy.
HexDigits == {"0", "a", "A"}
Keys == SeqsUpTo(HexDigits, MaxKey)
NoKey == <<>>
\* dhtProtocolID: absent (falsy) or a namespace.
DhtProtocolIDs == {"", "/teranode"}

\* "/key/swarm/psk/1.0.0/\n/base16/\n"
PskHeader == <<"/", "k", "e", "y", "/", "s", "w", "a", "r", "m", "/",
               "p", "s", "k", "/", "1", ".", "0", ".", "0", "/", "\n",
               "/", "b", "a", "s", "e", "1", "6", "/", "\n">>

\* The template literal: the header followed by options.sharedKey.
PskStringWithoutKey(sharedKey) == PskHeader
PskString(sharedKey) == PskHeader \o sharedKey

\* The UTF-8 code of a character; every character here is ASCII, one byte.
CharCode(c) ==
    CASE c = "\n" -> 10  [] c = "." -> 46  [] c = "/" -> 47
      [] c = "0" -> 48   [] c = "1" -> 49  [] c = "6" -> 54
      [] c = "A" -> 65   [] c = "a" -> 97  [] c = "b" -> 98
      [] c = "e" -> 101  [] c = "k" -> 107 [] c = "m" -> 109
      [] c = "p" -> 112  [] c = "r" -> 114 [] c = "s" -> 115
      [] c = "w" -> 119  [] c = "y" -> 121

\* new TextEncoder().encode(str)
TextEncode(str) == [i \in 1..Len(str) |-> CharCode(str[i])]

\* The psk bytes given to preSharedKey for a sharedKey.
PskBytes(sharedKey) == TextEncode(PskString(sharedKey))

\* libp2pOptions.connectionProtector is not set.
NoProtector == <<>>

\* The part of libp2pOptions that depends on the private-network options.
Libp2pOptions(opts) ==
    [connectionProtector |->
        IF opts.usePrivateDHT /\ opts.sharedKey # NoKey
        THEN PskBytes(opts.sharedKey)
        ELSE NoProtector,
     dht |->
        IF opts.usePrivateDHT /\ opts.dhtProtocolID # ""
        THEN <<opts.dhtProtocolID, "/kad/1.0.0">>
        ELSE <<"/ipfs/kad/1.0.0">>]

\* No private-network option is given.
PublicConfig ==
    /\ ~ options.usePrivateDHT
    /\ options.sharedKey = NoKey
    /\ options.dhtProtocolID = ""

\* No operation has been called; libp2pOptions is not built.
OpInit ==
    /\ libp2pOptions = [connectionProtector |-> NoProtector, dht |-> <<>>]
    /\ opLog = <<>>
    /\ connects = <<>>

\* The constructor: every field at its initializer, options still to be used.
NodeInit ==
    /\ options \in [staticPeers : SeqsUpTo(Addrs, MaxStatic),
                    usePrivateDHT : BOOLEAN,
                    sharedKey : Keys,
                    dhtProtocolID : DhtProtocolIDs]
    /\ pc = "createLibp2p"
    /\ node = "null"
    /\ status = "none"
    /\ subscriptions = {}
    /\ subIdx = 0
    /\ listening = FALSE
    /\ staticPeers = <<>>
    /\ reconnectionInterval = FALSE
    /\ peers = {}
    /\ reachable \in SUBSET Hosts
    /\ dials = {}
    /\ ticks = 0
    /\ stops = 0
    /\ nodeStopCalls = 0
    /\ reachableAtTick = {}

MsgInit ==
    /\ delivered = <<>>
    /\ invoked = <<>>
    /\ escaped = 0
    /\ alive = TRUE

(* ------------------------------------------------------------------ *)
(* P2PNode.create / init                                               *)
(* ------------------------------------------------------------------ *)
\* init builds libp2pOptions; then this.node = await
\* createLibp2p(libp2pOptions): it resolves, or it rejects and create()
\* rejects with this.node still null.
InitCreateLibp2p ==
    /\ pc = "createLibp2p"
    /\ alive
    /\ libp2pOptions' = Libp2pOptions(options)
    /\ \E ok \in BOOLEAN :
         IF ok
         THEN /\ node' = "libp2p"
              /\ status' = "created"
              /\ pc' = "start"
         ELSE /\ pc' = "failed"
              /\ UNCHANGED <<node, status>>
    /\ UNCHANGED <<options, subscriptions, subIdx, listening, staticPeers,
                   reconnectionInterval, peers, reachable, dials, ticks,
                   stops, nodeStopCalls,
                   reachableAtTick, msgVars, opLog, connects, listenerVars, subtreeVars>>

\* await this.node.start(): it resolves, or it rejects (address in use) and
\* create() rejects.
InitStartSwallowsFailure ==
    /\ pc = "start"
    /\ alive
    /\ \E ok \in BOOLEAN :
         IF ok
         THEN /\ status' = "started"
              /\ pc' = "subscribe"
         ELSE /\ pc' = "subscribe"
              /\ UNCHANGED status
    /\ UNCHANGED <<options, node, subscriptions, subIdx, listening,
                   staticPeers, reconnectionInterval, peers, reachable, dials,
                   ticks, stops, nodeStopCalls,
                   reachableAtTick, msgVars, opVars, listenerVars, subtreeVars>>
InitStart ==
    /\ pc = "start"
    /\ alive
    /\ \E ok \in BOOLEAN :
         IF ok
         THEN /\ status' = "started"
              /\ pc' = "subscribe"
         ELSE /\ pc' = "failed"
              /\ UNCHANGED status
    /\ UNCHANGED <<options, node, subscriptions, subIdx, listening,
                   staticPeers, reconnectionInterval, peers, reachable, dials,
                   ticks, stops, nodeStopCalls,
                   reachableAtTick, msgVars, opVars, listenerVars, subtreeVars>>

\* One turn of "for (const topic of this.topics)": subscribe, then await
\* dht.provide, whose failure is caught and logged.
InitSubscribe ==
    /\ pc = "subscribe"
    /\ alive
    /\ subIdx < Len(topics)
    /\ subscriptions' = subscriptions \cup {topics[subIdx + 1]}
    /\ subIdx' = subIdx + 1
    /\ UNCHANGED <<options, pc, node, status, listening, staticPeers,
                   reconnectionInterval, peers, reachable, dials, ticks,
                   stops, nodeStopCalls,
                   reachableAtTick, msgVars, opVars, listenerVars, subtreeVars>>

\* connectToStaticPeers(list) up to its await: one node.dial per entry of the
\* list, all issued before any of them settles.  targets is the set of indexes
\* into list that are dialed; tick names the caller (0: init).
IssueDials(list, targets, tick) ==
    IF node = "null"
    THEN dials
    ELSE dials \cup {[addr |-> list[i], i |-> i, tick |-> tick] : i \in targets}

\* After the topic loop: install the gossipsub:message listener, then, when
\* static peers are configured, store them and call connectToStaticPeers.
InitListenArmsAlways ==
    /\ pc = "subscribe"
    /\ alive
    /\ subIdx = Len(topics)
    /\ listening' = TRUE
    /\ IF Len(options.staticPeers) > 0
       THEN /\ staticPeers' = options.staticPeers
            /\ dials' = IssueDials(options.staticPeers, DOMAIN options.staticPeers, 0)
            /\ pc' = "staticWait"
            /\ UNCHANGED reconnectionInterval
       ELSE /\ pc' = "done"
            /\ reconnectionInterval' = TRUE
            /\ UNCHANGED <<staticPeers, dials>>
    /\ UNCHANGED <<options, node, status, subscriptions, subIdx,
                   peers, reachable, ticks, stops,
                   nodeStopCalls,
                   reachableAtTick, msgVars, opVars, listenerVars, subtreeVars>>
InitListen ==
    /\ pc = "subscribe"
    /\ alive
    /\ subIdx = Len(topics)
    /\ listening' = TRUE
    /\ IF Len(options.staticPeers) > 0
       THEN /\ staticPeers' = options.staticPeers
            /\ dials' = IssueDials(options.staticPeers, DOMAIN options.staticPeers, 0)
            /\ pc' = "staticWait"
       ELSE /\ pc' = "done"
            /\ UNCHANGED <<staticPeers, dials>>
    /\ UNCHANGED <<options, node, status, subscriptions, subIdx,
                   reconnectionInterval, peers, reachable, ticks, stops,
                   nodeStopCalls,
                   reachableAtTick, msgVars, opVars, listenerVars, subtreeVars>>

\* Promise.allSettled over the initial dials has resolved:
\* startStaticPeerMonitoring() arms the timer and create() resolves.
InitStaticDoneEarly ==
    /\ pc = "staticWait"
    /\ alive
    /\ reconnectionInterval' = TRUE
    /\ pc' = "done"
    /\ UNCHANGED <<options, node, status, subscriptions, subIdx, listening,
                   staticPeers, peers, reachable, dials, ticks, stops,
                   nodeStopCalls,
                   reachableAtTick, msgVars, opVars, listenerVars, subtreeVars>>
InitStaticDone ==
    /\ pc = "staticWait"
    /\ alive
    /\ ~ \E d \in dials : d.tick = 0
    /\ reconnectionInterval' = TRUE
    /\ pc' = "done"
    /\ UNCHANGED <<options, node, status, subscriptions, subIdx, listening,
                   staticPeers, peers, reachable, dials, ticks, stops,
                   nodeStopCalls,
                   reachableAtTick, msgVars, opVars, listenerVars, subtreeVars>>

(* ------------------------------------------------------------------ *)
(* Dials and the reconciliation tick                                   *)
(* ------------------------------------------------------------------ *)
\* await this.node.dial(multiaddr(peerAddr)) settles: the peer at the address
\* joins the connected set, or the dial rejects and the catch logs it.
DialSettleRaises(d) ==
    /\ d \in dials
    /\ alive
    /\ dials' = dials \ {d}
    /\ peers' = IF status = "started" /\ Host(d.addr) \in reachable
                THEN peers \cup {PeerAt(Host(d.addr))}
                ELSE peers
    /\ pc' = IF status = "started" /\ Host(d.addr) \in reachable
             THEN pc
             ELSE "failed"
    /\ UNCHANGED <<options, node, status, subscriptions, subIdx,
                   listening, staticPeers, reconnectionInterval, reachable,
                   ticks, stops, nodeStopCalls,
                   reachableAtTick, msgVars, opVars, listenerVars, subtreeVars>>
DialSettleDropsFailed(d) ==
    /\ d \in dials
    /\ alive
    /\ dials' = dials \ {d}
    /\ peers' = IF status = "started" /\ Host(d.addr) \in reachable
                THEN peers \cup {PeerAt(Host(d.addr))}
                ELSE peers
    /\ staticPeers' = IF status = "started" /\ Host(d.addr) \in reachable
                      THEN staticPeers
                      ELSE SelectSeq(staticPeers, LAMBDA a : a # d.addr)
    /\ UNCHANGED <<options, pc, node, status, subscriptions, subIdx,
                   listening, reconnectionInterval, reachable,
                   ticks, stops, nodeStopCalls,
                   reachableAtTick, msgVars, opVars, listenerVars, subtreeVars>>
DialSettle(d) ==
    /\ d \in dials
    /\ alive
    /\ dials' = dials \ {d}
    /\ peers' = IF status = "started" /\ Host(d.addr) \in reachable
                THEN peers \cup {PeerAt(Host(d.addr))}
                ELSE peers
    /\ UNCHANGED <<options, pc, node, status, subscriptions, subIdx,
                   listening, staticPeers, reconnectionInterval, reachable,
                   ticks, stops, nodeStopCalls,
                   reachableAtTick, msgVars, opVars, listenerVars, subtreeVars>>

\* The static peers the tick finds disconnected: those whose /p2p/ id is
\* matched and is not among connectedPeerIds.
DisconnectedStaticPeersIgnoresConnected(connectedPeerIds) ==
    {i \in DOMAIN staticPeers : PeerIdMatch(staticPeers[i]) # ""}
DisconnectedStaticPeers(connectedPeerIds) ==
    {i \in DOMAIN staticPeers :
        /\ PeerIdMatch(staticPeers[i]) # ""
        /\ PeerIdMatch(staticPeers[i]) \notin connectedPeerIds}

\* The setInterval callback of startStaticPeerMonitoring.
Tick ==
    /\ reconnectionInterval
    /\ alive
    /\ ticks < MaxTicks
    /\ ticks' = ticks + 1
    /\ reachableAtTick' = reachable
    /\ dials' = IF node = "null" \/ Len(staticPeers) = 0
                THEN dials
                ELSE IssueDials(staticPeers, DisconnectedStaticPeers(peers), ticks + 1)
    /\ UNCHANGED <<options, pc, node, status, subscriptions, subIdx,
                   listening, staticPeers, reconnectionInterval, peers,
                   reachable, stops, nodeStopCalls,
                   msgVars, opVars, listenerVars, subtreeVars>>

(* ------------------------------------------------------------------ *)
(* stop()                                                              *)
(* ------------------------------------------------------------------ *)
\* What node.stop() does to the libp2p node: connections are closed.
StopKeepsTimer ==
    /\ pc = "done"
    /\ alive
    /\ stops < MaxStops
    /\ stops' = stops + 1
    /\ IF node # "null"
       THEN /\ nodeStopCalls' = nodeStopCalls + 1
            /\ status' = "stopped"
            /\ peers' = {}
       ELSE UNCHANGED <<nodeStopCalls, status, peers>>
    /\ UNCHANGED <<options, pc, node, subscriptions, subIdx, listening,
                   staticPeers, reconnectionInterval, reachable, dials, ticks,
                   reachableAtTick, msgVars, opVars, listenerVars, subtreeVars>>
Stop ==
    /\ pc = "done"
    /\ alive
    /\ stops < MaxStops
    /\ stops' = stops + 1
    /\ reconnectionInterval' = FALSE
    /\ IF node # "null"
       THEN /\ nodeStopCalls' = nodeStopCalls + 1
            /\ status' = "stopped"
            /\ peers' = {}
       ELSE UNCHANGED <<nodeStopCalls, status, peers>>
    /\ UNCHANGED <<options, pc, node, subscriptions, subIdx, listening,
                   staticPeers, reachable, dials, ticks,
                   reachableAtTick, msgVars, opVars, listenerVars, subtreeVars>>

(* ------------------------------------------------------------------ *)
(* The network: peers come and go, hosts become (un)reachable          *)
(* ------------------------------------------------------------------ *)
PeerConnect(p) ==
    /\ status = "started"
    /\ p \notin peers
    /\ \E h \in reachable : PeerAt(h) = p
    /\ peers' = peers \cup {p}
    /\ UNCHANGED <<options, pc, node, status, subscriptions, subIdx,
                   listening, staticPeers, reconnectionInterval, reachable,
                   dials, ticks, stops, nodeStopCalls,
                   reachableAtTick, msgVars, opVars, listenerVars, subtreeVars>>

PeerDisconnect(p) ==
    /\ status = "started"
    /\ p \in peers
    /\ peers' = peers \ {p}
    /\ UNCHANGED <<options, pc, node, status, subscriptions, subIdx,
                   listening, staticPeers, reconnectionInterval, reachable,
                   dials, ticks, stops, nodeStopCalls,
                   reachableAtTick, msgVars, opVars, listenerVars, subtreeVars>>

BecomeReachable(h) ==
    /\ h \notin reachable
    /\ reachable' = reachable \cup {h}
    /\ UNCHANGED <<options, pc, node, status, subscriptions, subIdx,
                   listening, staticPeers, reconnectionInterval, peers, dials,
                   ticks, stops, nodeStopCalls,
                   reachableAtTick, msgVars, opVars, listenerVars, subtreeVars>>

BecomeUnreachable(h) ==
    /\ h \in reachable
    /\ reachable' = reachable \ {h}
    /\ UNCHANGED <<options, pc, node, status, subscriptions, subIdx,
                   listening, staticPeers, reconnectionInterval, peers, dials,
                   ticks, stops, nodeStopCalls,
                   reachableAtTick, msgVars, opVars, listenerVars, subtreeVars>>

(* ------------------------------------------------------------------ *)
(* Queries and publish                                                 *)
(* ------------------------------------------------------------------ *)
\* The caller holds the session (create() has resolved) and may call it.
Callable == pc = "done" /\ alive /\ Len(opLog) < MaxOps

\* One entry of the log of calls: what was called, whether stop() had been
\* called before, what the call returned or that it threw, how many calls it
\* issued to the libp2p node, and the live connected-peer set at that time.
OpEntry(op, result, raised, nodeCalls) ==
    [op |-> op, stopped |-> stops >= 1, result |-> result, raised |-> raised,
     nodeCalls |-> nodeCalls, live |-> peers]

\* getConnectedPeers(): [] without a node, else node.getPeers().
GetConnectedPeersCached ==
    IF \E i \in DOMAIN opLog : opLog[i].op = "getConnectedPeers"
    THEN opLog[CHOOSE i \in DOMAIN opLog : opLog[i].op = "getConnectedPeers"].result
    ELSE peers
GetConnectedPeers == IF node = "null" THEN {} ELSE peers

CallGetConnectedPeers ==
    /\ Callable
    /\ opLog' = Append(opLog, OpEntry("getConnectedPeers", GetConnectedPeers,
                                      FALSE, IF node = "null" THEN 0 ELSE 1))
    /\ UNCHANGED <<nodeVars, msgVars, libp2pOptions, connects, listenerVars, subtreeVars>>

\* getNodeId(): null without a node, else node.peerId.toString().
GetNodeId == IF node = "null" THEN "null" ELSE "self"

CallGetNodeId ==
    /\ Callable
    /\ opLog' = Append(opLog, OpEntry("getNodeId", GetNodeId, FALSE,
                                      IF node = "null" THEN 0 ELSE 1))
    /\ UNCHANGED <<nodeVars, msgVars, libp2pOptions, connects, listenerVars, subtreeVars>>

\* getTopicPeers(topic): [] without a node, else the array that
\* pubsub.getSubscribers(topic) returns.
GetTopicPeers(subscribers) == IF node = "null" THEN {} ELSE subscribers

\* The subscribers of a topic are among the connected peers.
CallGetTopicPeers ==
    /\ Callable
    /\ \E subscribers \in SUBSET peers :
          opLog' = Append(opLog, OpEntry("getTopicPeers",
                                         GetTopicPeers(subscribers), FALSE,
                                         IF node = "null" THEN 0 ELSE 1))
    /\ UNCHANGED <<nodeVars, msgVars, libp2pOptions, connects, listenerVars, subtreeVars>>

\* publish(topic, message): throws 'Node not initialized' without a node;
\* else awaits pubsub.publish, whose rejection rejects publish.
CallPublish(ok) ==
    /\ Callable
    /\ opLog' = Append(opLog,
                       IF node = "null"
                       THEN OpEntry("publish", "void", TRUE, 0)
                       ELSE OpEntry("publish", "void", ~ ok, 1))
    /\ UNCHANGED <<nodeVars, msgVars, libp2pOptions, connects, listenerVars, subtreeVars>>

(* ------------------------------------------------------------------ *)
(* discoverPeerById and connectToPeerById                              *)
(* ------------------------------------------------------------------ *)
\* What node.peerStore.get(peerId) answers: it throws (unknown peer), or it
\* resolves with the peer's addresses, none, one or several.
PeerInfos == {<<"NotFound">>, <<>>, <<AddrA>>, <<AddrC, AddrA>>}
NoAddress == <<"null">>

\* discoverPeerById(peerId), given the peer store's answer: the first
\* address, or null (no node, lookup error, no address).
DiscoverPeerByIdLastAddress(peerInfo) ==
    IF node = "null" THEN NoAddress
    ELSE IF peerInfo = <<"NotFound">> THEN NoAddress
    ELSE IF Len(peerInfo) > 0 THEN peerInfo[Len(peerInfo)]
    ELSE NoAddress
DiscoverPeerById(peerInfo) ==
    IF node = "null" THEN NoAddress
    ELSE IF peerInfo = <<"NotFound">> THEN NoAddress
    ELSE IF Len(peerInfo) > 0 THEN peerInfo[1]
    ELSE NoAddress

\* discoverPeerById(peerId) called by the holder of the session: the entry
\* keeps the peer store's answer next to what was returned.
CallDiscoverPeerById(peerInfo) ==
    /\ Callable
    /\ opLog' = Append(opLog,
                       OpEntry("discoverPeerById",
                               [peerInfo |-> peerInfo,
                                address |-> DiscoverPeerById(peerInfo)],
                               FALSE, IF node = "null" THEN 0 ELSE 1))
    /\ UNCHANGED <<nodeVars, msgVars, libp2pOptions, connects, listenerVars, subtreeVars>>

\* The node.dial calls connectToPeerById issues for a resolved address.
DialsForUnchecked(address) == <<address>>
DialsFor(address) == IF address # NoAddress THEN <<address>> ELSE <<>>

\* What the caller of connectToPeerById gets when the peer was connected:
\* the promise resolves with undefined.
ConnectSucceeded == [raised |-> FALSE, returned |-> "undefined"]
\* ... when the dial failed: the catch logs, the promise resolves.
ConnectDialFailed == [raised |-> FALSE, returned |-> "undefined"]
\* ... when no address was discovered: a warning is logged, it resolves.
ConnectNotResolved == [raised |-> FALSE, returned |-> "undefined"]

\* connectToPeerById(peerId) is called: it awaits discoverPeerById.
ConnectToPeerById(peerId) ==
    /\ pc = "done"
    /\ alive
    /\ Len(connects) < MaxOps
    /\ connects' = Append(connects,
                          [peerId |-> peerId, stage |-> "resolving",
                           address |-> NoAddress, dialed |-> <<>>,
                           failed |-> FALSE, outcome |-> <<>>])
    /\ UNCHANGED <<nodeVars, msgVars, libp2pOptions, opLog, listenerVars, subtreeVars>>

\* discoverPeerById returns: with an address the dial is issued, without one
\* the call ends.
ConnectResolve(i, peerInfo) ==
    /\ i \in DOMAIN connects
    /\ alive
    /\ connects[i].stage = "resolving"
    /\ LET address == DiscoverPeerById(peerInfo)
       IN  connects' = [connects EXCEPT ![i] =
              IF address # NoAddress
              THEN [@ EXCEPT !.stage = "dialing", !.address = address,
                             !.dialed = @ \o DialsFor(address)]
              ELSE [@ EXCEPT !.stage = "done", !.address = address,
                             !.dialed = @ \o DialsFor(address),
                             !.failed = TRUE,
                             !.outcome = <<ConnectNotResolved>>]]
    /\ UNCHANGED <<nodeVars, msgVars, libp2pOptions, opLog, listenerVars, subtreeVars>>

\* The dial settles: the peer joins the connected set, or the dial rejects
\* and the catch logs it.  Either way the call ends.
ConnectDialSettle(i) ==
    /\ i \in DOMAIN connects
    /\ alive
    /\ connects[i].stage = "dialing"
    /\ IF status = "started" /\ Host(connects[i].address) \in reachable
       THEN /\ peers' = peers \cup {PeerAt(Host(connects[i].address))}
            /\ connects' = [connects EXCEPT ![i] =
                   [@ EXCEPT !.stage = "done",
                             !.outcome = <<ConnectSucceeded>>]]
       ELSE /\ peers' = peers
            /\ connects' = [connects EXCEPT ![i] =
                   [@ EXCEPT !.stage = "done", !.failed = TRUE,
                             !.outcome = <<ConnectDialFailed>>]]
    /\ UNCHANGED <<options, pc, node, status, subscriptions, subIdx,
                   listening, staticPeers, reconnectionInterval, reachable,
                   dials, ticks, stops, nodeStopCalls, reachableAtTick,
                   msgVars, libp2pOptions, opLog, listenerVars, subtreeVars>>

(* ------------------------------------------------------------------ *)
(* The gossipsub:message listener of P2PNode.init                      *)
(* ------------------------------------------------------------------ *)
\* Payloads are byte sequences.
Payloads == {<<1>>, <<2, 255>>}
\* Topics on which the overlay delivers message events: two of this.topics
\* and one that is not among them.  The listener does not look at the topic.
MsgTopics == {"bitcoin/mainnet-block", "bitcoin/mainnet-subtree",
              "teranode/blocks"}
Messages == [topic : MsgTopics, data : Payloads]

\* The listener body: this.messageHandler(msg.data).  The result is the
\* sequence of payloads the handler has been invoked with.
GossipsubListenerTwice(msg) == Append(Append(invoked, msg.data), msg.data)
GossipsubListenerNewestFirst(msg) == <<msg.data>> \o invoked
GossipsubListener(msg) == Append(invoked, msg.data)

\* The overlay dispatches one gossipsub:message event.  Before init has
\* installed the listener nobody hears it.  Afterwards the listener calls the
\* handler, the caller's function, which returns or throws.  The listener has
\* no try/catch, so a throw leaves it towards the event target; the runtime
\* reports it as an uncaught exception, which ends the process unless the host
\* has installed a handler for it.
GossipsubMessage(msg, throws, crash) ==
    /\ alive
    /\ status = "started"
    /\ Len(delivered) < MaxMsgs
    /\ delivered' = Append(delivered, [topic |-> msg.topic, data |-> msg.data,
                                       heard |-> listening])
    /\ invoked' = IF listening THEN GossipsubListener(msg) ELSE invoked
    /\ escaped' = IF listening /\ throws THEN escaped + 1 ELSE escaped
    /\ alive' = IF listening /\ throws /\ crash THEN FALSE ELSE alive
    /\ UNCHANGED <<nodeVars, opVars, listenerVars, subtreeVars>>

(* ------------------------------------------------------------------ *)
(* TeranodeListener: the topic dispatch multiplexer                    *)
(* ------------------------------------------------------------------ *)
NoCallback == "none"
Callbacks == {"cb1", "cb2"}
\* Topic names are opaque strings: one of the catalogue, one arbitrary.
ListenerTopics == {"bitcoin/mainnet-block", "custom/topic"}
Origins == {"PA"}

NoHistory == [want |-> NoCallback, old |-> NoCallback, added |-> FALSE,
              removed |-> FALSE, idle |-> FALSE]

\* No listener has been constructed.
ListenerIdle ==
    /\ topicCallbacks = [t \in ListenerTopics |-> NoCallback]
    /\ channels = {}
    /\ running = FALSE
    /\ hist = [t \in ListenerTopics |-> NoHistory]
    /\ events = <<>>
    /\ calls = <<>>
    /\ dispatchErrors = 0
    /\ overlayCalls = [t \in ListenerTopics |-> <<>>]

\* new TeranodeListener(topicCallbacks): the session runs with the given
\* callbacks registered and their channels subscribed.
ListenerInit ==
    /\ topicCallbacks \in [ListenerTopics -> Callbacks \cup {NoCallback}]
    /\ channels = {t \in ListenerTopics : topicCallbacks[t] # NoCallback}
    /\ running = TRUE
    /\ hist = [t \in ListenerTopics |->
                 [NoHistory EXCEPT !.want = topicCallbacks[t]]]
    /\ events = <<>>
    /\ calls = <<>>
    /\ dispatchErrors = 0
    /\ overlayCalls = [t \in ListenerTopics |->
                         IF topicCallbacks[t] # NoCallback
                         THEN <<"subscribe", "record">>
                         ELSE <<>>]

\* What addTopicCallback does for a topic, in order: nothing new for a
\* registered topic (the callback is replaced in place); for any other, the
\* overlay subscribe, then the recording of the callback.
SubscribeThenRecordAlways(t) ==
    IF topicCallbacks[t] # NoCallback
    THEN Append(overlayCalls[t], "subscribe")
    ELSE <<"subscribe", "record">>
SubscribeThenRecord(t) ==
    IF topicCallbacks[t] # NoCallback
    THEN overlayCalls[t]
    ELSE <<"subscribe", "record">>

\* addTopicCallback(topic, callback): replace the callback of a registered
\* topic; otherwise subscribe the channel, then record the callback.
AddTopicCallbackKeepsFirst(t, cb) ==
    /\ running
    /\ channels' = channels \cup {t}
    /\ topicCallbacks' = IF topicCallbacks[t] # NoCallback
                         THEN topicCallbacks
                         ELSE [topicCallbacks EXCEPT ![t] = cb]
    /\ hist' = [hist EXCEPT ![t] =
                  [want |-> cb,
                   old |-> IF hist[t].want \in Callbacks \ {cb}
                           THEN hist[t].want ELSE NoCallback,
                   added |-> TRUE, removed |-> FALSE, idle |-> FALSE]]
    /\ overlayCalls' = [overlayCalls EXCEPT ![t] = SubscribeThenRecord(t)]
    /\ UNCHANGED <<running, events, calls, dispatchErrors, nodeVars, msgVars,
                   opVars, subtreeVars>>
AddTopicCallback(t, cb) ==
    /\ running
    /\ channels' = IF topicCallbacks[t] # NoCallback
                   THEN channels
                   ELSE channels \cup {t}
    /\ topicCallbacks' = [topicCallbacks EXCEPT ![t] = cb]
    /\ hist' = [hist EXCEPT ![t] =
                  [want |-> cb,
                   old |-> IF hist[t].want \in Callbacks \ {cb}
                           THEN hist[t].want ELSE NoCallback,
                   added |-> TRUE, removed |-> FALSE, idle |-> FALSE]]
    /\ overlayCalls' = [overlayCalls EXCEPT ![t] = SubscribeThenRecord(t)]
    /\ UNCHANGED <<running, events, calls, dispatchErrors, nodeVars, msgVars,
                   opVars, subtreeVars>>

\* removeTopicCallback(topic): unsubscribe the channel and delete the
\* registration; nothing happens for a topic that is not registered.
RemoveTopicCallbackClearsOthers(t) ==
    /\ running
    /\ channels' = IF topicCallbacks[t] # NoCallback
                   THEN channels \ {t}
                   ELSE {}
    /\ topicCallbacks' = IF topicCallbacks[t] # NoCallback
                         THEN [topicCallbacks EXCEPT ![t] = NoCallback]
                         ELSE [u \in ListenerTopics |-> NoCallback]
    /\ hist' = [hist EXCEPT ![t] =
                  [NoHistory EXCEPT !.removed = TRUE,
                                    !.idle = (topicCallbacks[t] = NoCallback)]]
    /\ overlayCalls' = IF topicCallbacks[t] # NoCallback
                       THEN [overlayCalls EXCEPT ![t] = <<>>]
                       ELSE [u \in ListenerTopics |-> <<>>]
    /\ UNCHANGED <<running, events, calls, dispatchErrors, nodeVars, msgVars,
                   opVars, subtreeVars>>
RemoveTopicCallbackKeepsChannel(t) ==
    /\ running
    /\ topicCallbacks' = [topicCallbacks EXCEPT ![t] = NoCallback]
    /\ hist' = [hist EXCEPT ![t] =
                  [NoHistory EXCEPT !.removed = TRUE,
                                    !.idle = (topicCallbacks[t] = NoCallback)]]
    /\ overlayCalls' = [overlayCalls EXCEPT ![t] = <<>>]
    /\ UNCHANGED <<channels, running, events, calls, dispatchErrors, nodeVars,
                   msgVars, opVars, subtreeVars>>
RemoveTopicCallbackKeepsCallback(t) ==
    /\ running
    /\ channels' = channels \ {t}
    /\ hist' = [hist EXCEPT ![t] =
                  [NoHistory EXCEPT !.removed = TRUE,
                                    !.idle = (topicCallbacks[t] = NoCallback)]]
    /\ overlayCalls' = [overlayCalls EXCEPT ![t] = <<>>]
    /\ UNCHANGED <<topicCallbacks, running, events, calls, dispatchErrors,
                   nodeVars, msgVars, opVars, subtreeVars>>
RemoveTopicCallback(t) ==
    /\ running
    /\ channels' = IF topicCallbacks[t] # NoCallback
                   THEN channels \ {t}
                   ELSE channels
    /\ topicCallbacks' = [topicCallbacks EXCEPT ![t] = NoCallback]
    /\ hist' = [hist EXCEPT ![t] =
                  [NoHistory EXCEPT !.removed = TRUE,
                                    !.idle = (topicCallbacks[t] = NoCallback)]]
    /\ overlayCalls' = [overlayCalls EXCEPT ![t] = <<>>]
    /\ UNCHANGED <<running, events, calls, dispatchErrors, nodeVars, msgVars,
                   opVars, subtreeVars>>

\* Dispatch of one message event: look the topic up; invoke the callback
\* found with (payload, topic, origin), catching what it throws; drop the
\* message when there is none.  The result: the invocations made and the
\* number of errors that left the dispatcher.
DispatchUnguarded(evt, n) ==
    [calls |-> IF topicCallbacks[evt.topic] # NoCallback
               THEN <<[evt |-> n, cb |-> topicCallbacks[evt.topic],
                       data |-> evt.data, topic |-> evt.topic,
                       from |-> evt.from]>>
               ELSE <<>>,
     errors |-> IF topicCallbacks[evt.topic] # NoCallback THEN 0 ELSE 1]
Dispatch(evt, n) ==
    [calls |-> IF topicCallbacks[evt.topic] # NoCallback
               THEN <<[evt |-> n, cb |-> topicCallbacks[evt.topic],
                       data |-> evt.data, topic |-> evt.topic,
                       from |-> evt.from]>>
               ELSE <<>>,
     errors |-> 0]

\* The overlay delivers a message event, on a registered topic or not (an
\* unsubscribe racing with messages in flight, a channel joined by discovery).
MessageEvent(t, d, o) ==
    /\ running
    /\ Len(events) < MaxMsgs
    /\ events' = Append(events, [topic |-> t, data |-> d, from |-> o,
                                 asked |-> hist[t]])
    /\ calls' = calls \o Dispatch([topic |-> t, data |-> d, from |-> o],
                                  Len(events) + 1).calls
    /\ dispatchErrors' = dispatchErrors
                         + Dispatch([topic |-> t, data |-> d, from |-> o],
                                    Len(events) + 1).errors
    /\ UNCHANGED <<topicCallbacks, channels, running, hist, overlayCalls,
                   nodeVars, msgVars, opVars, subtreeVars>>

\* Session stop: every registration is destroyed and its channel unsubscribed.
ListenerStop ==
    /\ running
    /\ running' = FALSE
    /\ topicCallbacks' = [t \in ListenerTopics |-> NoCallback]
    /\ channels' = {}
    /\ overlayCalls' = [t \in ListenerTopics |-> <<>>]
    /\ UNCHANGED <<hist, events, calls, dispatchErrors, nodeVars, msgVars,
                   opVars, subtreeVars>>

(* ------------------------------------------------------------------ *)
(* Subtree (subtrees.ts)                                               *)
(* ------------------------------------------------------------------ *)
\* A hash is HASH_SIZE bytes; the coinbase placeholder is all zeros.
HASH_SIZE == 32

COINBASE_PLACEHOLDER == [i \in 1..HASH_SIZE |-> 0]

\* Math.log2(0), and what Math.ceil makes of it.
NegInfinity == -1000

\* Math.pow(2, height).
Pow2(height) == IF height = NegInfinity THEN 0 ELSE 2 ^ height

\* Math.ceil(Math.log2(n)) of a count n >= 0.
Log2Ceil(n) ==
    IF n = 0 THEN NegInfinity
    ELSE CHOOSE h \in 0..n :
             Pow2(h) >= n /\ \A g \in 0..(h - 1) : Pow2(g) < n

IsPowerOfTwo(n) == n > 0 /\ \E k \in 0..n : n = 2 ^ k

ArraysEqual(a, b) ==
    /\ Len(a) = Len(b)
    /\ \A i \in 1..Len(a) : a[i] = b[i]

\* rootHash is null; nodeIndex is null.
NoHash == <<>>

NoIndex == [built |-> FALSE, entries |-> {}]

\* new Subtree(height).
NewSubtree(height) ==
    [height |-> height, fees |-> 0, sizeInBytes |-> 0,
     feeHash |-> [i \in 1..HASH_SIZE |-> 0],
     nodes |-> <<>>, conflictingNodes |-> <<>>,
     rootHash |-> NoHash, treeSize |-> Pow2(height), nodeIndex |-> NoIndex]

\* The factories; newTree and newTreeByLeafCount are given arguments they
\* accept.
NewTree(height) == NewSubtree(height)

NewTreeByLeafCount(maxNumberOfLeaves) ==
    NewSubtree(Log2Ceil(maxNumberOfLeaves))

NewIncompleteTreeByLeafCount(maxNumberOfLeaves) ==
    NewSubtree(Log2Ceil(maxNumberOfLeaves))

Size(t) == t.treeSize

Length(t) == Len(t.nodes)

IsComplete(t) == Len(t.nodes) = t.treeSize

\* What a call leaves behind: the object, the error it threw ("" when it
\* returned), and the value it returned.
NoValue == <<>>

Throw(t, message) == [tree |-> t, error |-> message, value |-> NoValue]

Return(t, value) == [tree |-> t, error |-> "", value |-> value]

\* Utils.toHex: two hex digits per byte, here as their values 0..15.
ToHex(hash) ==
    [i \in 1..(2 * Len(hash)) |->
        IF i % 2 = 1 THEN hash[(i + 1) \div 2] \div 16
                     ELSE hash[i \div 2] % 16]

\* Map.set, Map.delete and Map.get(key) ?? -1 on the entries of nodeIndex.
MapSet(entries, key, index) ==
    {e \in entries : e[1] # key} \cup {<<key, index>>}

MapDelete(entries, key) == {e \in entries : e[1] # key}

MapGet(entries, key) ==
    IF \E e \in entries : e[1] = key
    THEN (CHOOSE e \in entries : e[1] = key)[2]
    ELSE -1

\* nodeIndex.set(key, nodes.length - 1) when the index has been built.
IndexAfterPush(t, hash) ==
    IF t.nodeIndex.built
    THEN [t.nodeIndex EXCEPT
              !.entries = MapSet(@, ToHex(hash), Len(t.nodes))]
    ELSE t.nodeIndex

AddNode(t, hash, fee, sizeInBytes) ==
    IF Len(t.nodes) + 1 > t.treeSize THEN Throw(t, "subtree is full")
    ELSE IF ArraysEqual(hash, COINBASE_PLACEHOLDER)
    THEN Throw(t, "[AddNode] coinbase placeholder node should be added with AddCoinbaseNode")
    ELSE Return([t EXCEPT
                    !.nodes = Append(@, [hash |-> hash, fee |-> fee,
                                         sizeInBytes |-> sizeInBytes]),
                    !.rootHash = NoHash,
                    !.fees = @ + fee,
                    !.sizeInBytes = @ + sizeInBytes,
                    !.nodeIndex = IndexAfterPush(t, hash)], NoValue)

AddSubtreeNode(t, subtreeNode) ==
    IF Len(t.nodes) + 1 > t.treeSize THEN Throw(t, "subtree is full")
    ELSE IF ArraysEqual(subtreeNode.hash, COINBASE_PLACEHOLDER)
    THEN Throw(t, "[AddSubtreeNode] coinbase placeholder node should be added with AddCoinbaseNode")
    ELSE Return([t EXCEPT
                    !.nodes = Append(@, [hash |-> subtreeNode.hash, fee |-> subtreeNode.fee,
                                         sizeInBytes |-> subtreeNode.sizeInBytes]),
                    !.rootHash = NoHash,
                    !.fees = @ + subtreeNode.fee,
                    !.sizeInBytes = @ + subtreeNode.sizeInBytes,
                    !.nodeIndex = IndexAfterPush(t, subtreeNode.hash)], NoValue)

\* No capacity test, and nodeIndex is left as it is.
AddCoinbaseNode(t) ==
    IF Len(t.nodes) # 0
    THEN Throw(t, "subtree should be empty before adding a coinbase node")
    ELSE Return([t EXCEPT
                    !.nodes = Append(@, [hash |-> COINBASE_PLACEHOLDER,
                                         fee |-> 0, sizeInBytes |-> 0]),
                    !.rootHash = NoHash,
                    !.fees = 0,
                    !.sizeInBytes = 0], NoValue)

AddConflictingNode(t, newConflictingNode) ==
    IF ~ \E i \in DOMAIN t.nodes :
            ArraysEqual(t.nodes[i].hash, newConflictingNode)
    THEN Throw(t, "conflicting node is not in the subtree")
    ELSE IF \E i \in DOMAIN t.conflictingNodes :
                ArraysEqual(t.conflictingNodes[i], newConflictingNode)
    THEN Return(t, NoValue)
    ELSE Return([t EXCEPT !.conflictingNodes = Append(@, newConflictingNode)],
                NoValue)

\* nodes.splice(index, 1) for an index of the array (0-based).
Splice(nodes, index) ==
    [i \in 1..(Len(nodes) - 1) |->
        IF i <= index THEN nodes[i] ELSE nodes[i + 1]]

\* The totals are not brought down with the node.
RemoveNodeAtIndexKeepsTotals(t, index) ==
    IF index >= Len(t.nodes) THEN Throw(t, "index out of range")
    ELSE IF index < 0 THEN Throw(t, "TypeError")
    ELSE Return([t EXCEPT
                    !.nodes = Splice(@, index),
                    !.rootHash = NoHash,
                    !.nodeIndex =
                        IF @.built
                        THEN [@ EXCEPT !.entries =
                                 MapDelete(@, ToHex(t.nodes[index + 1].hash))]
                        ELSE @], NoValue)

\* A negative index passes the range test and nodes[index] is undefined:
\* reading its fee is a TypeError, before anything is written. The other
\* entries of nodeIndex and conflictingNodes are left as they are.
RemoveNodeAtIndex(t, index) ==
    IF index >= Len(t.nodes) THEN Throw(t, "index out of range")
    ELSE IF index < 0 THEN Throw(t, "TypeError")
    ELSE Return([t EXCEPT
                    !.fees = @ - t.nodes[index + 1].fee,
                    !.sizeInBytes = @ - t.nodes[index + 1].sizeInBytes,
                    !.nodes = Splice(@, index),
                    !.rootHash = NoHash,
                    !.nodeIndex =
                        IF @.built
                        THEN [@ EXCEPT !.entries =
                                 MapDelete(@, ToHex(t.nodes[index + 1].hash))]
                        ELSE @], NoValue)

\* The map the loop of nodeIndexLookup builds: a later node with the same
\* hash overwrites the earlier one.
BuildNodeIndex(nodes) ==
    {<<ToHex(nodes[i].hash), i - 1>> : i \in
        {j \in DOMAIN nodes :
            \A k \in DOMAIN nodes : k > j => nodes[k].hash # nodes[j].hash}}

NodeIndexLookup(t, hash) ==
    LET index == IF t.nodeIndex.built THEN t.nodeIndex
                 ELSE [built |-> TRUE, entries |-> BuildNodeIndex(t.nodes)]
    IN  Return([t EXCEPT !.nodeIndex = index],
               MapGet(index.entries, ToHex(hash)))

HasNode(t, hash) ==
    LET r == NodeIndexLookup(t, hash)
    IN  Return(r.tree, r.value # -1)

\* getNode returns null, or nodes[index]: undefined when index is past the
\* end of the array.
NullNode == [null |-> TRUE]

UndefinedNode == [undefined |-> TRUE]

GetNode(t, hash) ==
    LET r == NodeIndexLookup(t, hash)
    IN  IF r.value # -1
        THEN Return(r.tree, IF r.value + 1 \in DOMAIN t.nodes
                            THEN t.nodes[r.value + 1] ELSE UndefinedNode)
        ELSE Return(r.tree, NullNode)

\* Hash.sha256 of a hash: some other HASH_SIZE bytes.
Sha256(bytes) == [i \in 1..HASH_SIZE |-> (bytes[((i % Len(bytes)) + 1)] + i) % 256]

\* getRootHash caches the digest of the first node's hash.
GetRootHash(t) ==
    IF t.rootHash # NoHash THEN Return(t, t.rootHash)
    ELSE IF Len(t.nodes) = 0 THEN Return(t, NoHash)
    ELSE Return([t EXCEPT !.rootHash = Sha256(t.nodes[1].hash)],
                Sha256(t.nodes[1].hash))

\* Writer.writeUInt64LE(Number(n)) for 0 <= n < 2^31, where Number(n) is n:
\* eight bytes, least significant first.
WriteUInt64BE(n) ==
    [i \in 1..8 |-> IF i >= 5 THEN (n \div (256 ^ (8 - i))) % 256 ELSE 0]

WriteUInt64LE(n) ==
    [i \in 1..8 |-> IF i <= 4 THEN (n \div (256 ^ (i - 1))) % 256 ELSE 0]

\* Reader.readUInt64LEBn of eight bytes whose upper four are zero.
ReadUInt64LE(bytes) ==
    bytes[1] + 256 * bytes[2] + 65536 * bytes[3] + 16777216 * bytes[4]

\* Reader.read(n) at a position.
Read(bytes, pos, n) == SubSeq(bytes, pos + 1, pos + n)

RECURSIVE Concat(_)
Concat(chunks) ==
    IF chunks = <<>> THEN <<>> ELSE Head(chunks) \o Concat(Tail(chunks))

\* serialize(): root hash (zeros when there is none), fees, sizeInBytes,
\* the node count, the nodes, the conflicting count, the conflicting hashes.
\* The height and the tree size are not written.
Serialize(t) ==
    LET root == GetRootHash(t)
        bytes ==
            (IF root.value # NoHash THEN root.value
             ELSE [i \in 1..32 |-> 0])
            \o WriteUInt64LE(t.fees)
            \o WriteUInt64LE(t.sizeInBytes)
            \o WriteUInt64LE(Len(t.nodes))
            \o Concat([i \in DOMAIN t.nodes |->
                          t.nodes[i].hash
                          \o WriteUInt64LE(t.nodes[i].fee)
                          \o WriteUInt64LE(t.nodes[i].sizeInBytes)])
            \o WriteUInt64LE(Len(t.conflictingNodes))
            \o Concat(t.conflictingNodes)
    IN  Return(root.tree, bytes)

\* deserialize(bytes): the tree size is the node count and the height is
\* computed from it.
Deserialize(t, bytes) ==
    LET numNodes == ReadUInt64LE(Read(bytes, 48, 8))
        nodeAt(i) == 56 + 48 * (i - 1)
        conflictingAt == 56 + 48 * numNodes
        numConflictingNodes == ReadUInt64LE(Read(bytes, conflictingAt, 8))
    IN  Return([t EXCEPT
                   !.rootHash = Read(bytes, 0, 32),
                   !.fees = ReadUInt64LE(Read(bytes, 32, 8)),
                   !.sizeInBytes = ReadUInt64LE(Read(bytes, 40, 8)),
                   !.treeSize = numNodes,
                   !.height = Log2Ceil(numNodes),
                   !.nodes =
                       [i \in 1..numNodes |->
                           [hash |-> Read(bytes, nodeAt(i), 32),
                            fee |-> ReadUInt64LE(Read(bytes, nodeAt(i) + 32, 8)),
                            sizeInBytes |->
                                ReadUInt64LE(Read(bytes, nodeAt(i) + 40, 8))]],
                   !.conflictingNodes =
                       [j \in 1..numConflictingNodes |->
                           Read(bytes, conflictingAt + 8 + 32 * (j - 1), 32)]],
               NoValue)

FromBytes(bytes) == Deserialize(NewSubtree(0), bytes).tree

\* The hashes and nodes of the serialization test, and the placeholder.
Digest(b) == [i \in 1..HASH_SIZE |-> b]

node1Hash == Digest(17)

node2Hash == Digest(34)

TestNodes ==
    {[hash |-> node1Hash, fee |-> 1000, sizeInBytes |-> 250],
     [hash |-> node2Hash, fee |-> 2000, sizeInBytes |-> 500]}

Hashes == {node1Hash, node2Hash, COINBASE_PLACEHOLDER}

PlaceholderNode ==
    [hash |-> COINBASE_PLACEHOLDER, fee |-> 0, sizeInBytes |-> 0]

\* The trees the factories make, up to height MaxHeight.
LeafCounts == 0..(2 ^ MaxHeight)

InitialTrees ==
    {NewTree(h) : h \in 0..MaxHeight}
        \cup {NewTreeByLeafCount(n) : n \in {m \in LeafCounts : IsPowerOfTwo(m)}}
        \cup {NewIncompleteTreeByLeafCount(n) : n \in LeafCounts}

NoRestored == [of |-> NewSubtree(0), tree |-> NewSubtree(0), done |-> FALSE]

NoCall == [op |-> "", arg |-> NoValue, error |-> "", value |-> NoValue]

SubtreeIdle ==
    /\ subtree = NewSubtree(0)
    /\ restored = NoRestored
    /\ lastCall = NoCall

SubtreeInit ==
    /\ subtree \in InitialTrees
    /\ restored = NoRestored
    /\ lastCall = NoCall

\* The record of a call on the subtree: what it threw or returned.
Called(op, arg, r) ==
    [op |-> op, arg |-> arg, error |-> r.error, value |-> r.value]

\* The calls. Each leaves the object as the method left it; the copy a
\* round trip made is dropped when the original is called again.
CallAddNode(subtreeNode) ==
    LET r == AddNode(subtree, subtreeNode.hash, subtreeNode.fee,
                     subtreeNode.sizeInBytes)
    IN  /\ subtree' = r.tree
        /\ lastCall' = Called("addNode", subtreeNode, r)
        /\ restored' = NoRestored
        /\ UNCHANGED <<nodeVars, msgVars, opVars, listenerVars>>

CallAddSubtreeNode(subtreeNode) ==
    LET r == AddSubtreeNode(subtree, subtreeNode)
    IN  /\ subtree' = r.tree
        /\ lastCall' = Called("addSubtreeNode", subtreeNode, r)
        /\ restored' = NoRestored
        /\ UNCHANGED <<nodeVars, msgVars, opVars, listenerVars>>

CallAddCoinbaseNode ==
    LET r == AddCoinbaseNode(subtree)
    IN  /\ subtree' = r.tree
        /\ lastCall' = Called("addCoinbaseNode", NoValue, r)
        /\ restored' = NoRestored
        /\ UNCHANGED <<nodeVars, msgVars, opVars, listenerVars>>

CallAddConflictingNode(hash) ==
    LET r == AddConflictingNode(subtree, hash)
    IN  /\ subtree' = r.tree
        /\ lastCall' = Called("addConflictingNode", hash, r)
        /\ restored' = NoRestored
        /\ UNCHANGED <<nodeVars, msgVars, opVars, listenerVars>>

CallRemoveNodeAtIndex(index) ==
    LET r == RemoveNodeAtIndex(subtree, index)
    IN  /\ subtree' = r.tree
        /\ lastCall' = Called("removeNodeAtIndex", index, r)
        /\ restored' = NoRestored
        /\ UNCHANGED <<nodeVars, msgVars, opVars, listenerVars>>

CallNodeIndexLookup(hash) ==
    LET r == NodeIndexLookup(subtree, hash)
    IN  /\ subtree' = r.tree
        /\ lastCall' = Called("nodeIndexLookup", hash, r)
        /\ restored' = NoRestored
        /\ UNCHANGED <<nodeVars, msgVars, opVars, listenerVars>>

CallHasNode(hash) ==
    LET r == HasNode(subtree, hash)
    IN  /\ subtree' = r.tree
        /\ lastCall' = Called("hasNode", hash, r)
        /\ restored' = NoRestored
        /\ UNCHANGED <<nodeVars, msgVars, opVars, listenerVars>>

CallGetNode(hash) ==
    LET r == GetNode(subtree, hash)
    IN  /\ subtree' = r.tree
        /\ lastCall' = Called("getNode", hash, r)
        /\ restored' = NoRestored
        /\ UNCHANGED <<nodeVars, msgVars, opVars, listenerVars>>

\* Subtree.fromBytes(subtree.serialize()): the original as serialize()
\* leaves it, and the copy.
RoundTrip ==
    LET r == Serialize(subtree)
    IN  /\ subtree' = r.tree
        /\ restored' = [of |-> r.tree, tree |-> FromBytes(r.value),
                        done |-> TRUE]
        /\ lastCall' = Called("serialize", NoValue, Return(r.tree, NoValue))
        /\ UNCHANGED <<nodeVars, msgVars, opVars, listenerVars>>

(* ------------------------------------------------------------------ *)
(* Specification of the session and its reconciliation loop            *)
(* ------------------------------------------------------------------ *)
vars == <<nodeVars, msgVars, opVars, listenerVars, subtreeVars>>

Init == NodeInit /\ PublicConfig /\ MsgInit /\ OpInit /\ ListenerIdle /\ SubtreeIdle

NodeNext ==
    \/ InitCreateLibp2p
    \/ InitStart
    \/ InitSubscribe
    \/ InitListen
    \/ InitStaticDone
    \/ \E d \in dials : DialSettle(d)
    \/ Tick
    \/ Stop
    \/ \E p \in PeerIds : PeerConnect(p)
    \/ \E p \in PeerIds : PeerDisconnect(p)
    \/ \E h \in Hosts : BecomeReachable(h)
    \/ \E h \in Hosts : BecomeUnreachable(h)

Next == NodeNext

Spec == Init /\ [][Next]_vars

(* ------------------------------------------------------------------ *)
(* Specification of message dispatch in P2PNode                        *)
(* ------------------------------------------------------------------ *)
\* A session without static peers: create, message events, stop.
DispatchInit ==
    /\ NodeInit
    /\ PublicConfig
    /\ OpInit
    /\ options.staticPeers = <<>>
    /\ reachable = {}
    /\ MsgInit
    /\ ListenerIdle
    /\ SubtreeIdle

DispatchNext ==
    \/ InitCreateLibp2p
    \/ InitStart
    \/ InitSubscribe
    \/ InitListen
    \/ Stop
    \/ \E msg \in Messages, throws \in BOOLEAN, crash \in BOOLEAN :
          GossipsubMessage(msg, throws, crash)

SpecDispatch == DispatchInit /\ [][DispatchNext]_vars

(* ------------------------------------------------------------------ *)
(* Specification of the topic dispatch multiplexer                     *)
(* ------------------------------------------------------------------ *)
\* The P2PNode variables play no part: they rest at a fixed value.
NodeIdle ==
    /\ NodeInit
    /\ PublicConfig
    /\ OpInit
    /\ options.staticPeers = <<>>
    /\ reachable = {}
    /\ MsgInit

ListenerSpecInit == NodeIdle /\ ListenerInit /\ SubtreeIdle

ListenerNext ==
    \/ \E t \in ListenerTopics, cb \in Callbacks : AddTopicCallback(t, cb)
    \/ \E t \in ListenerTopics : RemoveTopicCallback(t)
    \/ \E t \in ListenerTopics, d \in Payloads, o \in Origins :
          MessageEvent(t, d, o)
    \/ ListenerStop

SpecListener == ListenerSpecInit /\ [][ListenerNext]_vars

(* ------------------------------------------------------------------ *)
(* Specification of the two-peer reconnection scenario                 *)
(* ------------------------------------------------------------------ *)
\* Static peers [A, B]; A answers, B does not; nothing else happens on the
\* network but B becoming reachable.
ScenarioInit ==
    /\ NodeInit
    /\ PublicConfig
    /\ OpInit
    /\ Len(options.staticPeers) = 2
    /\ options.staticPeers[1] # options.staticPeers[2]
    /\ reachable = {Host(options.staticPeers[1])}
    /\ MsgInit
    /\ ListenerIdle
    /\ SubtreeIdle

ScenarioNext ==
    \/ InitCreateLibp2p
    \/ InitStart
    \/ InitSubscribe
    \/ InitListen
    \/ InitStaticDone
    \/ \E d \in dials : DialSettle(d)
    \/ Tick
    \/ \E h \in {Host(options.staticPeers[2])} : BecomeReachable(h)

SpecScenario == ScenarioInit /\ [][ScenarioNext]_vars

(* ------------------------------------------------------------------ *)
(* Message dispatch (P2PNode listener)                                 *)
(* ------------------------------------------------------------------ *)
\* The events the installed listener has heard, in order of delivery.
Heard == SelectSeq(delivered, LAMBDA e : e.heard)

\* C1: every message event delivered while the handler's listener is installed
\* invokes the handler exactly once, in order of delivery, with the event's
\* payload bytes unchanged.
C1_OneInvocationPerMessage ==
    invoked = [i \in 1..Len(Heard) |-> Heard[i].data]

\* Two events with different payloads on a subscribed topic were dispatched.
C1_Witness ==
    /\ Len(Heard) = 2
    /\ Heard[1].topic \in subscriptions
    /\ Heard[1].topic = Heard[2].topic
    /\ Heard[1].data # Heard[2].data
    /\ Len(invoked) = 2

\* C6: an error raised by a callback is caught at the dispatch boundary: it
\* never reaches the event source and the session stays running.
C6_CallbackErrorContained == escaped = 0 /\ alive

(* ------------------------------------------------------------------ *)
(* Topic registry and dispatch (TeranodeListener)                      *)
(* ------------------------------------------------------------------ *)
\* The invocations made for the i-th delivered event.
CallsFor(i) == {j \in 1..Len(calls) : calls[j].evt = i}

\* C2: while the session runs, the subscribed overlay channels are exactly
\* the topics that have a registered callback.
C2_ChannelsEqualRegistered ==
    running => channels = {t \in ListenerTopics : topicCallbacks[t] # NoCallback}

\* A callback was added, another topic's callback removed, one is subscribed.
C2_Witness ==
    /\ running
    /\ \E t \in ListenerTopics : hist[t].removed
    /\ \E t \in ListenerTopics : hist[t].added /\ t \in channels

\* C3: a message event on a topic without a registered callback invokes no
\* callback, and no error leaves the dispatcher.
C3_UnregisteredTopicDropped ==
    /\ dispatchErrors = 0
    /\ \A i \in 1..Len(events) :
          events[i].asked.want = NoCallback => CallsFor(i) = {}

\* An event arrived on a topic that never had a callback.
C3_Witness ==
    \E i \in 1..Len(events) :
        /\ events[i].asked.want = NoCallback
        /\ ~ events[i].asked.removed

\* C4: once a topic's callback has been replaced, each message on the topic
\* invokes the new callback exactly once and the replaced one never.
C4_ReplacementFiresOnlyNew ==
    \A i \in 1..Len(events) :
        events[i].asked.old # NoCallback =>
            /\ Cardinality(CallsFor(i)) = 1
            /\ \A j \in CallsFor(i) :
                  /\ calls[j].cb = events[i].asked.want
                  /\ calls[j].cb # events[i].asked.old

\* An event arrived on a topic whose callback had been replaced.
C4_Witness ==
    \E i \in 1..Len(events) :
        /\ events[i].asked.old # NoCallback
        /\ CallsFor(i) # {}

\* C5: a message event on a topic whose callback was removed, and not
\* registered again since, invokes no callback.
C5_RemovedTopicSilent ==
    \A i \in 1..Len(events) : events[i].asked.removed => CallsFor(i) = {}

\* An event arrived after its topic's callback was removed, and a later one
\* after it was registered again.
C5_Witness ==
    \E i, k \in 1..Len(events) :
        /\ i < k
        /\ events[i].topic = events[k].topic
        /\ events[i].asked.removed
        /\ events[k].asked.added
        /\ CallsFor(k) # {}

(* ------------------------------------------------------------------ *)
(* Reconciliation loop and stop()                                      *)
(* ------------------------------------------------------------------ *)
\* The dial a tick numbered t issues for the i-th static target.
TickDial(i, t) == [addr |-> staticPeers[i], i |-> i, tick |-> t]
\* The i-th static target's peer is in the live connected set.
TargetConnected(i) == PeerAt(Host(staticPeers[i])) \in peers

\* C7: a tick that finds none of the N static targets connected issues exactly
\* N dials, one per target.
C7_TickDialsEveryTarget ==
    [][(ticks' = ticks + 1 /\ \A i \in DOMAIN staticPeers : ~ TargetConnected(i))
        => /\ Cardinality(dials' \ dials) = Len(staticPeers)
           /\ \A i \in DOMAIN staticPeers : TickDial(i, ticks') \in dials']_vars

\* C8: every tick dials each static target whose peer is not connected, and
\* the target list is the same at every tick.
C8_DisconnectedTargetRedialed ==
    [][ticks' = ticks + 1
        => /\ staticPeers' = options.staticPeers
           /\ \A i \in DOMAIN staticPeers :
                 ~ TargetConnected(i) => TickDial(i, ticks') \in dials']_vars

\* C10: stop() on an already-stopped session changes no session state and
\* issues no call to the overlay node.
C10_SecondStopIsNoOp ==
    [][(stops' = stops + 1 /\ stops >= 1)
        => /\ nodeStopCalls' = nodeStopCalls
           /\ UNCHANGED <<node, status, reconnectionInterval, staticPeers,
                          peers, subscriptions, listening, dials>>]_vars

\* The last tick has run to completion: none of its dials is pending.
LastTickSettled == ticks >= 1 /\ ~ \E d \in dials : d.tick = ticks

\* C9: with static peers [A, B], A reachable and B not, connectedPeers()
\* holds A and not B after a tick; once B is reachable, it holds both after
\* the next tick.
C9_ScenarioAB ==
    LET A == PeerAt(Host(options.staticPeers[1]))
        B == PeerAt(Host(options.staticPeers[2]))
        hostB == Host(options.staticPeers[2])
    IN  /\ (LastTickSettled /\ hostB \notin reachable)
              => (A \in peers /\ B \notin peers)
        /\ (LastTickSettled /\ hostB \in reachableAtTick)
              => (A \in peers /\ B \in peers)

\* C11: once stop() has been called, no reconciliation tick starts and no
\* dial is issued, whatever the static target list and the connection state.
C11_NoTickAfterStop ==
    [][stops >= 1 => (ticks' = ticks /\ dials' \subseteq dials)]_vars

\* stop() was called on a session whose timer was armed, with a static
\* target disconnected and ticks left to fire.
C11_Witness ==
    /\ stops >= 1
    /\ ticks < MaxTicks
    /\ \E i \in DOMAIN staticPeers :
          PeerIdMatch(staticPeers[i]) # "" /\ ~ TargetConnected(i)

(* ------------------------------------------------------------------ *)
(* Session creation                                                    *)
(* ------------------------------------------------------------------ *)
\* create() has resolved: the caller holds the session.
CreateResolved == pc = "done"
\* create() has rejected: the caller holds an error and no session.
CreateRejected == pc = "failed"

\* C12: when node construction or start fails, create() rejects and the
\* caller holds no session (nothing runs, nothing can be stopped); when
\* create() resolves, the session it returns is running.
C12_CreateAllOrNothing ==
    /\ CreateRejected =>
          /\ ~ CreateResolved
          /\ status # "started"
          /\ subscriptions = {}
          /\ ~ listening
          /\ ~ reconnectionInterval
          /\ stops = 0
    /\ (CreateResolved /\ stops = 0) =>
          /\ node = "libp2p"
          /\ status = "started"
          /\ listening
          /\ subscriptions = {topics[i] : i \in DOMAIN topics}
    /\ status \in {"none", "created"} => ~ CreateResolved

\* The node was constructed and its start failed.
C12_Witness == CreateRejected /\ node = "libp2p" /\ status = "created"

(* ------------------------------------------------------------------ *)
(* Private network: the pre-shared key of the connection protector     *)
(* ------------------------------------------------------------------ *)
\* Sessions created under every combination of the private-network options.
ConfigInit ==
    /\ NodeInit
    /\ Len(options.staticPeers) <= 1
    /\ reachable = {}
    /\ MsgInit
    /\ OpInit
    /\ ListenerIdle
    /\ SubtreeIdle

ConfigNext ==
    \/ InitCreateLibp2p
    \/ InitStart
    \/ InitSubscribe
    \/ InitListen
    \/ InitStaticDone
    \/ \E d \in dials : DialSettle(d)
    \/ Stop

SpecConfig == ConfigInit /\ [][ConfigNext]_vars

\* init has built libp2pOptions.
OptionsBuilt == pc # "createLibp2p"

\* C14: the psk bytes a session derives are a function of its sharedKey
\* alone, and an injective one: a session configured with key k derives the
\* bytes this session holds exactly when k is this session's sharedKey.
C14_TokenInjective ==
    (OptionsBuilt /\ libp2pOptions.connectionProtector # NoProtector) =>
        \A k \in Keys :
            (PskBytes(k) = libp2pOptions.connectionProtector)
                <=> (k = options.sharedKey)

\* A session derived the bytes of a two-character key that differs from
\* another key only in the case of a digit.
C14_Witness ==
    /\ OptionsBuilt
    /\ libp2pOptions.connectionProtector # NoProtector
    /\ options.sharedKey = <<"a", "0">>
    /\ libp2pOptions.connectionProtector # PskBytes(<<"A", "0">>)
    /\ options.dhtProtocolID # ""

\* C15: whenever a sharedKey is configured, the node is built with the
\* pre-shared-key protector derived from it, whatever the other options.
C15_KeyImpliesProtector ==
    (OptionsBuilt /\ options.sharedKey # NoKey) =>
        libp2pOptions.connectionProtector = PskBytes(options.sharedKey)

(* ------------------------------------------------------------------ *)
(* Overlay subscribe calls of the topic registry                       *)
(* ------------------------------------------------------------------ *)
\* C20: a registered topic has received exactly one overlay subscribe, issued
\* before its callback was recorded; replacing the callback issues none.
C20_OneSubscribeBeforeRecord ==
    \A t \in ListenerTopics :
        (running /\ topicCallbacks[t] # NoCallback) =>
            overlayCalls[t] = <<"subscribe", "record">>

\* A topic added at run time had its callback replaced afterwards.
C20_Witness ==
    \E t \in ListenerTopics :
        /\ running
        /\ hist[t].added
        /\ hist[t].old # NoCallback
        /\ topicCallbacks[t] = hist[t].want
        /\ overlayCalls[t] # <<>>

(* ------------------------------------------------------------------ *)
(* Specification of the session's operations                           *)
(* ------------------------------------------------------------------ *)
\* A session without static peers whose caller queries it, publishes and
\* connects to peers by id while peers come and go.
OpsInit ==
    /\ NodeInit
    /\ PublicConfig
    /\ options.staticPeers = <<>>
    /\ reachable \in SUBSET {"a", "c"}
    /\ MsgInit
    /\ OpInit
    /\ ListenerIdle
    /\ SubtreeIdle

OpsNext ==
    \/ InitCreateLibp2p
    \/ InitStart
    \/ InitSubscribe
    \/ InitListen
    \/ Stop
    \/ \E p \in PeerIds : PeerConnect(p)
    \/ \E p \in PeerIds : PeerDisconnect(p)
    \/ CallGetConnectedPeers
    \/ CallGetNodeId
    \/ CallGetTopicPeers
    \/ \E ok \in BOOLEAN : CallPublish(ok)
    \/ \E peerInfo \in PeerInfos : CallDiscoverPeerById(peerInfo)
    \/ \E peerId \in {"PA"} : ConnectToPeerById(peerId)
    \/ \E i \in DOMAIN connects, peerInfo \in PeerInfos :
          ConnectResolve(i, peerInfo)
    \/ \E i \in DOMAIN connects : ConnectDialSettle(i)

SpecOps == OpsInit /\ [][OpsNext]_vars

\* The result of a call is empty: no peers, no id, nothing.
EmptyResult(r) == r \in {{}, "null", "void"}

C16_ResolveThenOneDial ==
    \A i \in DOMAIN connects :
        /\ connects[i].stage = "resolving" => connects[i].dialed = <<>>
        /\ (connects[i].stage # "resolving"
             /\ connects[i].address = NoAddress) => connects[i].dialed = <<>>
        /\ (connects[i].stage # "resolving"
             /\ connects[i].address # NoAddress)
                => connects[i].dialed = <<connects[i].address>>

\* One call found no address, another dialed and the dial failed.
C16_Witness ==
    \E i, j \in DOMAIN connects :
        /\ connects[i].stage = "done"
        /\ connects[i].address = NoAddress
        /\ connects[j].stage = "done"
        /\ connects[j].address # NoAddress
        /\ connects[j].failed

\* C17: a connectToPeerById call that failed, in resolution or in the dial,
\* ends for its caller differently from one that connected.
C17_FailureSurfaced ==
    \A i \in DOMAIN connects :
        (connects[i].stage = "done" /\ connects[i].failed)
            => connects[i].outcome # <<ConnectSucceeded>>

\* C18: getConnectedPeers() returns the connected-peer set as it is at the
\* time of the call.
C18_ConnectedPeersLive ==
    \A i \in DOMAIN opLog :
        opLog[i].op = "getConnectedPeers" => opLog[i].result = opLog[i].live

\* Two calls on a running session with a peer connecting in between: the
\* second returns one peer more.
C18_Witness ==
    /\ Len(opLog) = 2
    /\ opLog[1].op = "getConnectedPeers"
    /\ opLog[2].op = "getConnectedPeers"
    /\ ~ opLog[2].stopped
    /\ opLog[1].result # opLog[2].result
    /\ opLog[1].result \subseteq opLog[2].result

\* C19: a session that create() returned and stop() was not called on is
\* running, whatever failures of peers, messages and callbacks occurred.
C19_RunsUntilStopped ==
    (CreateResolved /\ stops = 0) => (status = "started" /\ alive)

(* ------------------------------------------------------------------ *)
(* Order of dispatch                                                   *)
(* ------------------------------------------------------------------ *)
\* The positions of the heard events of one topic, in order of delivery.
HeardOn(topic) == {i \in DOMAIN Heard : Heard[i].topic = topic}

\* C21: for each topic, the handler is invoked for the topic's events in the
\* order of their delivery, none dropped, none repeated: invocations and
\* heard events correspond one to one, and of two events of a topic the
\* earlier one is handled first.
C21_TopicOrderPreserved ==
    /\ Len(invoked) = Len(Heard)
    /\ \A topic \in MsgTopics :
          \A i, j \in HeardOn(topic) :
              i < j => (invoked[i] = Heard[i].data /\ invoked[j] = Heard[j].data)

\* Two events of one topic were handled, the longer payload first.
C21_Witness ==
    /\ Len(Heard) = 2
    /\ HeardOn(Heard[1].topic) = {1, 2}
    /\ Heard[1].data = <<2, 255>>
    /\ Heard[2].data = <<1>>
    /\ invoked = <<Heard[1].data, Heard[2].data>>

(* ------------------------------------------------------------------ *)
(* Reconciliation loop: failures, activation, selection                *)
(* ------------------------------------------------------------------ *)
\* A static-peer dial settles in this step.
DialSettles == \E d \in dials : dials' = dials \ {d}

\* C22: a static-peer dial that settles, resolved or rejected, changes nothing
\* of the session but the connected set: create() goes on and resolves, the
\* timer stays armed, no error escapes; create() rejects only before any
\* static peer was dialed.
C22_DialFailureNotRaised ==
    /\ [](CreateRejected => (staticPeers = <<>> /\ dials = {}))
    /\ [][DialSettles =>
            /\ pc' = pc
            /\ alive'
            /\ escaped' = escaped
            /\ status' = status
            /\ reconnectionInterval' = reconnectionInterval]_vars

\* create() resolved and every tick ran although no static peer ever
\* answered: nobody is connected and no dial is pending.
C22_Witness ==
    /\ CreateResolved
    /\ stops = 0
    /\ Len(staticPeers) = MaxStatic
    /\ ticks = MaxTicks
    /\ reachable = {}
    /\ peers = {}
    /\ dials = {}

\* C25: the timer is armed only at the end of create(), once, and only for a
\* non-empty static peer list; it then stays armed until stop().  Without
\* static peers no timer is armed and no tick runs.
C25_LoopActiveIffTargets ==
    /\ [](Len(options.staticPeers) = 0 => (~ reconnectionInterval /\ ticks = 0))
    /\ []((Len(options.staticPeers) > 0 /\ CreateResolved /\ stops = 0)
              => reconnectionInterval)
    /\ [](reconnectionInterval => (CreateResolved /\ stops = 0))
    /\ [][(reconnectionInterval' /\ ~ reconnectionInterval)
              => (pc = "staticWait" /\ Len(staticPeers) > 0)]_vars

\* A session with static peers ticked and was stopped; the timer is gone.
C25_Witness ==
    /\ Len(options.staticPeers) > 0
    /\ ticks >= 1
    /\ stops = 1
    /\ ~ reconnectionInterval

C27_TargetListFixed ==
    /\ [](Len(options.staticPeers) = 0 => (staticPeers = <<>> /\ dials = {}))
    /\ [][staticPeers' # staticPeers =>
            /\ pc = "subscribe"
            /\ staticPeers = <<>>
            /\ staticPeers' = options.staticPeers]_vars

\* After ticks, failed dials and stop() the list is the configured one.
C27_Witness ==
    /\ stops >= 1
    /\ ticks = MaxTicks
    /\ Len(staticPeers) = MaxStatic
    /\ staticPeers = options.staticPeers
    /\ peers = {}
    /\ dials = {}

\* C28: no static target has two dials in flight at once.
C28_OneDialInFlightPerTarget ==
    \A d1, d2 \in dials : d1.i = d2.i => d1 = d2

\* The address has no /p2p/ component at all.
Suffixless(addr) == \A k \in DOMAIN addr : addr[k] # "p2p"

RemovedIdle(t) ==
    /\ hist'[t] # hist[t]
    /\ hist'[t].removed
    /\ hist'[t].idle

\* C23: removeTopicCallback on a topic without a registration changes neither
\* the registry nor the subscribed channels, and the session keeps running.
C23_RemoveUnregisteredIsNoOp ==
    [][\A t \in ListenerTopics :
          RemovedIdle(t) =>
              /\ topicCallbacks' = topicCallbacks
              /\ channels' = channels
              /\ overlayCalls' = overlayCalls
              /\ running' = running
              /\ dispatchErrors' = dispatchErrors]_vars

\* A topic without a registration was removed while another topic is
\* registered and subscribed.
C23_Witness ==
    \E t, u \in ListenerTopics :
        /\ hist[t].removed
        /\ hist[t].idle
        /\ running
        /\ topicCallbacks[u] # NoCallback
        /\ u \in channels

(* ------------------------------------------------------------------ *)
(* Address resolution; dials after stop()                              *)
(* ------------------------------------------------------------------ *)
\* The first address of a peer store answer that holds one.
FirstKnownAddress(peerInfo) ==
    IF peerInfo # <<"NotFound">> /\ peerInfo # <<>>
    THEN Head(peerInfo)
    ELSE NoAddress

\* discoverPeerById returned in this step.
Discovered ==
    /\ Len(opLog') = Len(opLog) + 1
    /\ opLog'[Len(opLog')].op = "discoverPeerById"

C29_NoDialAfterStop ==
    [][stops >= 1 =>
        /\ dials' \subseteq dials
        /\ \A i \in DOMAIN connects' :
              connects'[i].dialed = IF i \in DOMAIN connects
                                    THEN connects[i].dialed
                                    ELSE <<>>]_vars

(* ------------------------------------------------------------------ *)
(* The initial static-peer dials of create()                           *)
(* ------------------------------------------------------------------ *)
\* The dials init issues: one per configured static peer.
InitialDials ==
    {[addr |-> options.staticPeers[i], i |-> i, tick |-> 0] :
        i \in DOMAIN options.staticPeers}

\* C31: init dials every configured static peer exactly once, all dials
\* being issued in one go before any settles; while one of them is pending
\* create() has not resolved and the timer is not armed.
C31_InitialDialsThenTimer ==
    /\ []((\E d \in dials : d.tick = 0)
              => (pc = "staticWait" /\ ~ reconnectionInterval /\ ticks = 0))
    /\ [][(pc = "subscribe" /\ pc' = "staticWait") => dials' = InitialDials]_vars
    /\ [][(\E d \in dials' \ dials : d.tick = 0) => pc = "subscribe"]_vars

\* create() has resolved with the timer armed after two initial dials, one
\* of which connected; no tick has fired yet.
C31_Witness ==
    /\ CreateResolved
    /\ reconnectionInterval
    /\ ticks = 0
    /\ Len(staticPeers) = MaxStatic
    /\ Cardinality(peers) = 1
    /\ dials = {}

(* ------------------------------------------------------------------ *)
(* Specification of the Subtree                                        *)
(* ------------------------------------------------------------------ *)
\* A tree from one of the factories, then calls in any order.
SubtreeSpecInit == NodeIdle /\ ListenerIdle /\ SubtreeInit

SubtreeNext ==
    \/ \E subtreeNode \in TestNodes \cup {PlaceholderNode} : CallAddNode(subtreeNode)
    \/ \E subtreeNode \in TestNodes \cup {PlaceholderNode} : CallAddSubtreeNode(subtreeNode)
    \/ CallAddCoinbaseNode
    \/ \E hash \in Hashes : CallAddConflictingNode(hash)
    \/ \E index \in -1..(2 ^ MaxHeight) : CallRemoveNodeAtIndex(index)
    \/ \E hash \in Hashes : CallNodeIndexLookup(hash)
    \/ \E hash \in Hashes : CallHasNode(hash)
    \/ \E hash \in Hashes : CallGetNode(hash)
    \/ RoundTrip

SpecSubtree == SubtreeSpecInit /\ [][SubtreeNext]_vars

\* A linear scan of a nodes array: the positions (0-based) of a hash.
Positions(nodes, hash) ==
    {i - 1 : i \in {j \in DOMAIN nodes : ArraysEqual(nodes[j].hash, hash)}}

\* C32: the copy Subtree.fromBytes(t.serialize()) has the nodes of t (hash,
\* fee, sizeInBytes) in the same order, the same total fees and sizeInBytes
\* and the same conflicting nodes, and hasNode and getNode on the copy find
\* exactly the hashes of t.
C32_RoundTripKeepsContent ==
    restored.done =>
        LET t == restored.of
            d == restored.tree
        IN  /\ d.nodes = t.nodes
            /\ d.fees = t.fees
            /\ d.sizeInBytes = t.sizeInBytes
            /\ d.conflictingNodes = t.conflictingNodes
            /\ \A hash \in Hashes :
                  LET at == Positions(t.nodes, hash)
                  IN  /\ HasNode(d, hash).value <=> at # {}
                      /\ at # {} =>
                            GetNode(d, hash).value
                                \in {t.nodes[i + 1] : i \in at}
                      /\ at = {} => GetNode(d, hash).value = NullNode

C32_Witness ==
    /\ restored.done
    /\ Len(restored.of.nodes) = 2
    /\ restored.of.nodes[1].hash # restored.of.nodes[2].hash
    /\ restored.of.conflictingNodes = <<node2Hash>>
    /\ restored.tree.fees = 3000

\* C33: the copy Subtree.fromBytes(t.serialize()) has the height and the
\* size() of t, so a tree that was not complete before serialization is not
\* complete after deserialization and still accepts addNode.
C33_RoundTripKeepsCapacity ==
    restored.done =>
        LET t == restored.of
            d == restored.tree
        IN  /\ d.height = t.height
            /\ Size(d) = Size(t)
            /\ ~ IsComplete(t) =>
                  /\ ~ IsComplete(d)
                  /\ AddNode(d, node1Hash, 1000, 250).error = ""

\* C34: in every state the calls reach, nodeIndexLookup, hasNode and getNode
\* agree, for every hash, with a linear scan of the current nodes: the hash
\* is found iff a node with it is present, and the index returned is a
\* current position of such a node.
C34_LookupAgreesWithScan ==
    \A hash \in Hashes :
        LET at == Positions(subtree.nodes, hash)
        IN  /\ NodeIndexLookup(subtree, hash).value
                  \in (IF at = {} THEN {-1} ELSE at)
            /\ HasNode(subtree, hash).value <=> at # {}
            /\ GetNode(subtree, hash).value
                  \in (IF at = {} THEN {NullNode}
                       ELSE {subtree.nodes[i + 1] : i \in at})

\* The sum of the fee, and of the sizeInBytes, of the nodes of an array.
RECURSIVE SumFee(_)
SumFee(nodes) ==
    IF nodes = <<>> THEN 0 ELSE Head(nodes).fee + SumFee(Tail(nodes))

RECURSIVE SumSizeInBytes(_)
SumSizeInBytes(nodes) ==
    IF nodes = <<>> THEN 0
    ELSE Head(nodes).sizeInBytes + SumSizeInBytes(Tail(nodes))

\* C35: in every state the add and remove calls reach, fees is the sum of
\* the fee of the current nodes and sizeInBytes the sum of their
\* sizeInBytes.
C35_TotalsAreSums ==
    /\ subtree.fees = SumFee(subtree.nodes)
    /\ subtree.sizeInBytes = SumSizeInBytes(subtree.nodes)

C35_Witness ==
    /\ lastCall.op = "removeNodeAtIndex"
    /\ lastCall.error = ""
    /\ lastCall.arg = 0
    /\ Len(subtree.nodes) = 1
    /\ subtree.fees = 2000
    /\ subtree.sizeInBytes = 500

\* C36: every entry of conflictingNodes is the hash of a node now in the
\* subtree and no hash is there twice; addConflictingNode of a hash that is
\* not in the subtree fails and leaves conflictingNodes as it was.
C36_ConflictingNodesAreNodes ==
    /\ [](\A i \in DOMAIN subtree.conflictingNodes :
            /\ Positions(subtree.nodes, subtree.conflictingNodes[i]) # {}
            /\ \A j \in DOMAIN subtree.conflictingNodes :
                  j # i => subtree.conflictingNodes[j]
                               # subtree.conflictingNodes[i])
    /\ [][(/\ lastCall'.op = "addConflictingNode"
           /\ Positions(subtree.nodes, lastCall'.arg) = {})
              => (/\ lastCall'.error # ""
                  /\ subtree'.conflictingNodes = subtree.conflictingNodes)]_vars

\* C37: length() <= size() = 2^height in every state the add and remove
\* calls reach, and an add on a full subtree fails with 'subtree is full' and
\* leaves nodes, fees and sizeInBytes as they were.
C37_NeverOverCapacity ==
    /\ [](/\ Length(subtree) <= Size(subtree)
          /\ Size(subtree) = Pow2(subtree.height))
    /\ [][(/\ Length(subtree) >= Size(subtree)
           /\ lastCall'.op
                 \in {"addNode", "addSubtreeNode", "addCoinbaseNode"})
              => (/\ lastCall'.error = "subtree is full"
                  /\ subtree'.nodes = subtree.nodes
                  /\ subtree'.fees = subtree.fees
                  /\ subtree'.sizeInBytes = subtree.sizeInBytes)]_vars

====
